---- MODULE Spec2Model ----
(***************************************************************************)
(* Model of stock_price.py: the command-line run                           *)
(*   interpret arguments -> convert windows -> load CSV -> compute the     *)
(*   moving averages and the oscillator -> render -> exit.                 *)
(*                                                                         *)
(* Text (argument strings, CSV fields) is a sequence of one-character      *)
(* strings.  Floating-point values are exact rationals [n, d], d > 0, in   *)
(* lowest terms.                                                           *)
(***************************************************************************)
EXTENDS Integers, Sequences, FiniteSets, TLC

\* ------------------------------------------------------------------ bounds
\* Largest number of data rows (rows after the header) of an input file.
MaxRows == 2

\* ------------------------------------------------------- exact arithmetic
Abs(x) == IF x < 0 THEN -x ELSE x

RECURSIVE GCD(_, _)
GCD(a, b) == IF b = 0 THEN a ELSE GCD(b, a % b)

\* The rational n/d (d # 0) in lowest terms with a positive denominator.
Rat(n, d) ==
    LET g == GCD(Abs(n), Abs(d))
        s == IF d < 0 THEN -1 ELSE 1
    IN  [n |-> (s * n) \div g, d |-> (s * d) \div g]

RInt(k) == [n |-> k, d |-> 1]
RAdd(a, b) ==
    LET g == GCD(a.d, b.d)
    IN  Rat(a.n * (b.d \div g) + b.n * (a.d \div g), (a.d \div g) * b.d)
RNeg(a) == [n |-> -a.n, d |-> a.d]
RSub(a, b) == RAdd(a, RNeg(b))
RMul(a, b) ==
    LET g1 == GCD(Abs(a.n), b.d)
        g2 == GCD(Abs(b.n), a.d)
    IN  Rat((a.n \div g1) * (b.n \div g2), (a.d \div g2) * (b.d \div g1))
\* a / b for b # 0.
RDiv(a, b) == RMul(a, Rat(b.d, b.n))
RLess(a, b) == a.n * b.d < b.n * a.d

\* --------------------------------------------------------------- builtins
Digits == <<"0", "1", "2", "3", "4", "5", "6", "7", "8", "9">>

IsDigit(c) == \E i \in 1..Len(Digits) : Digits[i] = c
DigitVal(c) == (CHOOSE i \in 1..Len(Digits) : Digits[i] = c) - 1
AllDigits(s) == \A i \in 1..Len(s) : IsDigit(s[i])

RECURSIVE DigitsVal(_)
\* int() of a sequence of decimal digits (0 for the empty sequence).
DigitsVal(s) ==
    IF s = <<>> THEN 0
    ELSE 10 * DigitsVal(SubSeq(s, 1, Len(s) - 1)) + DigitVal(s[Len(s)])

RECURSIVE Pow10(_)
Pow10(k) == IF k = 0 THEN 1 ELSE 10 * Pow10(k - 1)

\* Positions of character c in s.
Positions(s, c) == {i \in 1..Len(s) : s[i] = c}

\* float(s) for text over digits, sign, '.', and letters that start no
\* special form: [sign] digits [. [digits]] | [sign] . digits.
\* ok = FALSE stands for the ValueError float() raises.
Float(s) ==
    LET signed == Len(s) > 0 /\ s[1] \in {"+", "-"}
        body   == IF signed THEN SubSeq(s, 2, Len(s)) ELSE s
        dots   == Positions(body, ".")
        dot    == IF dots = {} THEN Len(body) + 1
                  ELSE CHOOSE i \in dots : \A j \in dots : i <= j
        ip     == SubSeq(body, 1, dot - 1)
        fp     == SubSeq(body, dot + 1, Len(body))
        valid  == /\ Cardinality(dots) <= 1
                  /\ AllDigits(ip) /\ AllDigits(fp)
                  /\ Len(ip) + Len(fp) > 0
        mag    == Rat(DigitsVal(ip) * Pow10(Len(fp)) + DigitsVal(fp), Pow10(Len(fp)))
    IN  IF ~valid THEN [ok |-> FALSE, val |-> RInt(0)]
        ELSE [ok |-> TRUE,
              val |-> IF signed /\ s[1] = "-" THEN RNeg(mag) ELSE mag]

\* ----------------------------------------------------- __convert_input
DaysPerWeek == 7

\* The conversion with a bare number read as days.
ConvertInputNoSuffixAsDays(val) ==
    IF val = <<>> THEN [err |-> "IndexError", val |-> RInt(0)]
    ELSE LET last == val[Len(val)]
             init == SubSeq(val, 1, Len(val) - 1)
             f == IF last \in {"w", "d"} THEN Float(init) ELSE Float(val)
         IN  IF ~f.ok THEN [err |-> "ValueError", val |-> RInt(0)]
             ELSE IF last = "w"
                  THEN [err |-> "none", val |-> RMul(f.val, RInt(DaysPerWeek))]
                  ELSE [err |-> "none", val |-> f.val]

\* __convert_input(val): the number of days, or the exception raised.
ConvertInput(val) ==
    IF val = <<>> THEN [err |-> "IndexError", val |-> RInt(0)]
    ELSE LET last == val[Len(val)]
             init == SubSeq(val, 1, Len(val) - 1)
         IN  IF last = "w"
             THEN LET f == Float(init)
                  IN  IF f.ok
                      THEN [err |-> "none", val |-> RMul(f.val, RInt(DaysPerWeek))]
                      ELSE [err |-> "ValueError", val |-> RInt(0)]
             ELSE IF last = "d"
             THEN LET f == Float(init)
                  IN  IF f.ok THEN [err |-> "none", val |-> f.val]
                      ELSE [err |-> "ValueError", val |-> RInt(0)]
             ELSE LET f == Float(val)
                  IN  IF f.ok
                      THEN [err |-> "none", val |-> RMul(f.val, RInt(DaysPerWeek))]
                      ELSE [err |-> "ValueError", val |-> RInt(0)]

\* ------------------------------------------------- datetime.strptime
UpperCase == <<"A", "B", "C", "D", "E", "F", "G", "H", "I", "J", "K", "L", "M",
               "N", "O", "P", "Q", "R", "S", "T", "U", "V", "W", "X", "Y", "Z">>
LowerCase == <<"a", "b", "c", "d", "e", "f", "g", "h", "i", "j", "k", "l", "m",
               "n", "o", "p", "q", "r", "s", "t", "u", "v", "w", "x", "y", "z">>

Lower(c) ==
    IF \E i \in 1..Len(UpperCase) : UpperCase[i] = c
    THEN LowerCase[CHOOSE i \in 1..Len(UpperCase) : UpperCase[i] = c]
    ELSE c
LowerText(s) == [i \in 1..Len(s) |-> Lower(s[i])]

\* %b: the abbreviated month names, matched ignoring case.
MonthNames == << <<"j", "a", "n">>, <<"f", "e", "b">>, <<"m", "a", "r">>,
                 <<"a", "p", "r">>, <<"m", "a", "y">>, <<"j", "u", "n">>,
                 <<"j", "u", "l">>, <<"a", "u", "g">>, <<"s", "e", "p">>,
                 <<"o", "c", "t">>, <<"n", "o", "v">>, <<"d", "e", "c">> >>

IsLeap(y) == (y % 4 = 0 /\ y % 100 # 0) \/ y % 400 = 0
DaysInMonth(y, m) ==
    IF m = 2 THEN (IF IsLeap(y) THEN 29 ELSE 28)
    ELSE IF m \in {4, 6, 9, 11} THEN 30 ELSE 31

\* datetime.strptime(s, "%d-%b-%y"): the date <<year, month, day>>, or
\* ok = FALSE for the ValueError it raises.
Strptime(s) ==
    LET dashes == Positions(s, "-")
        d1 == CHOOSE i \in dashes : \A j \in dashes : i <= j
        d2 == CHOOSE i \in dashes : \A j \in dashes : j <= i
        dd == SubSeq(s, 1, d1 - 1)
        bb == LowerText(SubSeq(s, d1 + 1, d2 - 1))
        yy == SubSeq(s, d2 + 1, Len(s))
        shape == /\ Cardinality(dashes) = 2
                 /\ Len(dd) \in {1, 2} /\ AllDigits(dd)
                 /\ DigitsVal(dd) \in 1..31
                 /\ \E m \in 1..Len(MonthNames) : MonthNames[m] = bb
                 /\ Len(yy) = 2 /\ AllDigits(yy)
        month == CHOOSE m \in 1..Len(MonthNames) : MonthNames[m] = bb
        year == IF DigitsVal(yy) <= 68 THEN 2000 + DigitsVal(yy)
                ELSE 1900 + DigitsVal(yy)
        day == DigitsVal(dd)
    IN  IF shape /\ day <= DaysInMonth(year, month)
        THEN [ok |-> TRUE, val |-> <<year, month, day>>]
        ELSE [ok |-> FALSE, val |-> <<0, 0, 0>>]

\* datetime ordering.
DateLess(a, b) ==
    \/ a[1] < b[1]
    \/ a[1] = b[1] /\ a[2] < b[2]
    \/ a[1] = b[1] /\ a[2] = b[2] /\ a[3] < b[3]

\* ------------------------------------------------------ process_csv_file
DateColumn == 1
CloseColumn == 5

RECURSIVE ParseRowsSkipMalformed(_)
\* The comprehension with rows it cannot convert left out instead of raising.
ParseRowsSkipMalformed(rows) ==
    IF rows = <<>> THEN [err |-> "none", data |-> <<>>]
    ELSE LET r == Head(rows)
             good == /\ Len(r) >= CloseColumn
                     /\ Strptime(r[DateColumn]).ok
                     /\ Float(r[CloseColumn]).ok
             rest == ParseRowsSkipMalformed(Tail(rows))
         IN  IF good
             THEN [err |-> "none",
                   data |-> << <<Strptime(r[DateColumn]).val,
                                 Float(r[CloseColumn]).val>> >> \o rest.data]
             ELSE rest

RECURSIVE ParseRows(_)
\* [(strptime(r[0]), float(r[4])) for r in data]: the pairs in row order,
\* or the first exception raised.
ParseRows(rows) ==
    IF rows = <<>> THEN [err |-> "none", data |-> <<>>]
    ELSE LET r == Head(rows)
         IN  IF Len(r) < DateColumn THEN [err |-> "IndexError", data |-> <<>>]
             ELSE IF ~Strptime(r[DateColumn]).ok
             THEN [err |-> "ValueError", data |-> <<>>]
             ELSE IF Len(r) < CloseColumn THEN [err |-> "IndexError", data |-> <<>>]
             ELSE IF ~Float(r[CloseColumn]).ok
             THEN [err |-> "ValueError", data |-> <<>>]
             ELSE LET rest == ParseRows(Tail(rows))
                  IN  IF rest.err # "none" THEN rest
                      ELSE [err |-> "none",
                            data |-> << <<Strptime(r[DateColumn]).val,
                                          Float(r[CloseColumn]).val>> >>
                                     \o rest.data]

\* x placed before the elements of its own date: equal dates end reversed.
InsertByDateUnstable(sorted, x) ==
    LET k == Cardinality({i \in 1..Len(sorted) : DateLess(sorted[i][1], x[1])})
    IN  SubSeq(sorted, 1, k) \o <<x>> \o SubSeq(sorted, k + 1, Len(sorted))

\* x placed after every element whose date is not later: a stable insert.
InsertByDate(sorted, x) ==
    LET k == Cardinality({i \in 1..Len(sorted) : ~DateLess(x[1], sorted[i][1])})
    IN  SubSeq(sorted, 1, k) \o <<x>> \o SubSeq(sorted, k + 1, Len(sorted))

RECURSIVE SortedByDate(_)
\* sorted(data, key=lambda x: x[0])
SortedByDate(data) ==
    IF data = <<>> THEN <<>>
    ELSE InsertByDate(SortedByDate(SubSeq(data, 1, Len(data) - 1)), data[Len(data)])

\* data[1:]
SkipHeader(rows) == IF rows = <<>> THEN <<>> ELSE Tail(rows)

\* process_csv_file(fpath), for the file the path names: the sorted pairs,
\* or the exception raised.
ProcessCsvFile(file) ==
    IF file.kind # "ok" THEN [err |-> "IOError", data |-> <<>>]
    ELSE LET parsed == ParseRows(SkipHeader(file.rows))
         IN  IF parsed.err # "none" THEN parsed
             ELSE [err |-> "none", data |-> SortedByDate(parsed.data)]

\* ------------------------------------------------------------ pandas.ewma
\* The loop seeded with zero instead of the first observation.
EwmaFirstZero(x0) ==
    [err |-> "none", avg |-> RInt(0), old_wt |-> RInt(1), out |-> <<RInt(0)>>]

\* State of the averaging loop after the first observation.
EwmaFirst(x0) == [err |-> "none", avg |-> x0, old_wt |-> RInt(1), out |-> <<x0>>]

\* The same pass with adjust=False: weights 1 - alpha and alpha.
EwmaStepUnadjusted(st, cur, factor) ==
    IF st.err # "none" THEN st
    ELSE LET avg == RAdd(RMul(factor, st.avg), RMul(RSub(RInt(1), factor), cur))
         IN  [err |-> "none", avg |-> avg, old_wt |-> RInt(1),
              out |-> Append(st.out, avg)]

\* One pass of the loop body for observation cur with adjust=True:
\* old_wt *= 1 - alpha; the average moves to the weighted mean unless it
\* already equals cur; old_wt += 1.  Dividing by zero raises.
EwmaStep(st, cur, factor) ==
    LET ow  == RMul(st.old_wt, factor)
        den == RAdd(ow, RInt(1))
    IN  IF st.err # "none" THEN st
        ELSE IF st.avg # cur /\ den.n = 0
        THEN [st EXCEPT !.err = "ZeroDivisionError"]
        ELSE LET avg == IF st.avg # cur
                        THEN RDiv(RAdd(RMul(ow, st.avg), cur), den)
                        ELSE st.avg
             IN  [err |-> "none", avg |-> avg, old_wt |-> den,
                  out |-> Append(st.out, avg)]

RECURSIVE EwmaLoop(_, _, _)
\* The loop state after observations x[1..k], k >= 1.
EwmaLoop(x, k, factor) ==
    IF k = 1 THEN EwmaFirst(x[1])
    ELSE EwmaStep(EwmaLoop(x, k - 1, factor), x[k], factor)

\* pandas.ewma(x, span=span) with the defaults (adjust=True, min_periods=0):
\* com = (span - 1) / 2, alpha = 1 / (1 + com) = 2 / (span + 1).  A release
\* that checks its arguments (validates) raises ValueError for span < 1.
Ewma(x, span, validates) ==
    IF validates /\ RLess(span, RInt(1)) THEN [err |-> "ValueError", out |-> <<>>]
    ELSE IF x = <<>> THEN [err |-> "none", out |-> <<>>]
    ELSE IF RAdd(span, RInt(1)).n = 0 THEN [err |-> "ZeroDivisionError", out |-> <<>>]
    ELSE LET alpha  == RDiv(RInt(2), RAdd(span, RInt(1)))
             factor == RSub(RInt(1), alpha)
             st     == EwmaLoop(x, Len(x), factor)
         IN  [err |-> st.err, out |-> IF st.err = "none" THEN st.out ELSE <<>>]

\* -------------------------------------------------------------- plot_data
\* span=(1.5 * 7)
OscillatorSpan == RMul(Rat(3, 2), RInt(DaysPerWeek))

\* prices = [p[1] for p in data]
Prices(data) == [i \in 1..Len(data) |-> data[i][2]]

\* The operands of the subtraction exchanged.
MinusReversed(a, b) == [i \in 1..Len(a) |-> RSub(b[i], a[i])]

\* Element-wise a[i] - b[i] over the indices of a.
Minus(a, b) == [i \in 1..Len(a) |-> RSub(a[i], b[i])]

\* The exception that ends plot_data, given the outcomes of its three
\* ewma calls in call order.
FirstError(lt, st, dav) ==
    IF lt.err # "none" THEN lt.err
    ELSE IF st.err # "none" THEN st.err
    ELSE dav.err

\* ------------------------------------------------------------ input texts
\* Window strings given to -l and -s in full runs.
WindowTexts ==
    { <<"1", "w">>, <<"3", "d">>, <<"0">>, <<"-", "2", "d">>, <<"x">>, <<>> }

\* Window strings the conversion alone is run on.
ConvertTexts ==
    WindowTexts \cup
    { <<"4", "w">>, <<"2", "w">>, <<"1", "0", "d">>, <<"3">>, <<"1", ".", "5", "w">>,
      <<"w">>, <<"2", "x", "d">> }

Date02Jan15  == <<"0", "2", "-", "J", "a", "n", "-", "1", "5">>
Date01Jan15  == <<"0", "1", "-", "J", "a", "n", "-", "1", "5">>
Date2jan15   == <<"2", "-", "j", "a", "n", "-", "1", "5">>
Date31Dec99  == <<"3", "1", "-", "D", "e", "c", "-", "9", "9">>
DateIso      == <<"2", "0", "1", "5", "-", "0", "1", "-", "0", "1">>
Price100     == <<"1", "0", "0", ".", "0">>
Price99      == <<"9", "9", ".", "0">>
Price101h    == <<"1", "0", "1", ".", "5">>
PriceNA      == <<"n", "/", "a">>
Other        == <<"7">>

HeaderRow == << <<"D", "a", "t", "e">>, <<"O">>, <<"H">>, <<"L">>, <<"C">> >>

\* Data rows an input file is made of: well-formed rows (two of them on the
\* same day, two of them with the same close), a row with an ISO date, a
\* row with a non-numeric close, and a row with too few columns.
DataRows ==
    { <<Date02Jan15, Other, Other, Other, Price100>>,
      <<Date01Jan15, Other, Other, Other, Price99>>,
      <<Date2jan15, Other, Other, Other, Price101h>>,
      <<Date31Dec99, Other, Other, Other, Price100>>,
      <<DateIso, Other, Other, Other, Price100>>,
      <<Date02Jan15, Other, Other, Other, PriceNA>>,
      <<Date01Jan15, Other>> }

SeqsUpTo(S, n) == UNION {[1..k -> S] : k \in 0..n}

\* What the path given to -i names: no file, a file whose read fails, an
\* empty file, or a header row followed by at most MaxRows data rows.
InputFiles ==
    { [kind |-> "missing", rows |-> <<>>], [kind |-> "unreadable", rows |-> <<>>],
      [kind |-> "ok", rows |-> <<>>] }
    \cup { [kind |-> "ok", rows |-> <<HeaderRow>> \o rs] : rs \in SeqsUpTo(DataRows, MaxRows) }

\* ------------------------------------------------------------------ state
VARIABLES
    args_long,         \* args.long: the -l string
    args_short,        \* args.short: the -s string
    args_output_file,  \* args.output_file: "None" or "path"
    input_file,        \* what args.input_file names
    pandas_validates,  \* the installed pandas.ewma checks span >= 1
    pc,                \* position of __main
    short_win,         \* locals of __main
    long_win,
    data,
    series,            \* the parameters and series of plot_data
    figure,            \* "none", "shown" or "saved"
    stdout,            \* lines printed, each by its prefix
    traceback,         \* the uncaught exception, or "none"
    exit_status

vars == <<args_long, args_short, args_output_file, input_file, pandas_validates, pc,
          short_win, long_win, data, series, figure, stdout, traceback, exit_status>>

NoSeries == [long_win |-> RInt(0), short_win |-> RInt(0), lt_av |-> <<>>, st_av |-> <<>>,
             diff_ltst |-> <<>>, diff_ltst_av |-> <<>>, diff_av_diff |-> <<>>]

InitWith(windows, files) ==
    /\ args_long \in windows
    /\ args_short \in windows
    /\ args_output_file \in {"None", "path"}
    /\ input_file \in files
    /\ pandas_validates \in BOOLEAN
    /\ pc = "start"
    /\ short_win = RInt(0)
    /\ long_win = RInt(0)
    /\ data = <<>>
    /\ series = NoSeries
    /\ figure = "none"
    /\ stdout = <<>>
    /\ traceback = "none"
    /\ exit_status = 0

Init == InitWith(WindowTexts, InputFiles)

\* An exception no handler of __main names: the interpreter prints the
\* traceback and the process ends with status 1.
Uncaught(exc) ==
    /\ traceback' = exc
    /\ exit_status' = 1
    /\ pc' = "exited"
    /\ UNCHANGED stdout

\* except IOError / except ValueError: print the line, sys.exit(1).
Caught(exc) ==
    /\ stdout' = Append(stdout, exc)
    /\ exit_status' = 1
    /\ pc' = "exited"
    /\ UNCHANGED traceback

Raise(exc) == IF exc \in {"IOError", "ValueError"} THEN Caught(exc) ELSE Uncaught(exc)

\* __main: short_win = __convert_input(args.short);
\*         long_win = __convert_input(args.long), outside the try.
ConvertArgs ==
    /\ pc = "start"
    /\ \E s \in {ConvertInput(args_short)}, l \in {ConvertInput(args_long)} :
           IF s.err # "none"
           THEN Uncaught(s.err) /\ UNCHANGED <<short_win, long_win>>
           ELSE IF l.err # "none"
           THEN Uncaught(l.err) /\ short_win' = s.val /\ UNCHANGED long_win
           ELSE /\ short_win' = s.val
                /\ long_win' = l.val
                /\ pc' = "converted"
                /\ UNCHANGED <<stdout, traceback, exit_status>>
    /\ UNCHANGED <<args_long, args_short, args_output_file, input_file,
                   pandas_validates, data, series, figure>>

\* __main: data = process_csv_file(args.input_file), inside the try.
LoadCsv ==
    /\ pc = "converted"
    /\ \E r \in {ProcessCsvFile(input_file)} :
           IF r.err # "none"
           THEN Raise(r.err) /\ UNCHANGED data
           ELSE /\ data' = r.data
                /\ pc' = "loaded"
                /\ UNCHANGED <<stdout, traceback, exit_status>>
    /\ UNCHANGED <<args_long, args_short, args_output_file, input_file,
                   pandas_validates, short_win, long_win, series, figure>>

\* The call plot_data(data, out_fpath, short_win, long_win) against the
\* signature plot_data(data, out_file, long_win, short_win): the values
\* the parameters long_win and short_win receive.
PlotDataParams(short, long) == [long_win |-> short, short_win |-> long]

\* plot_data up to the last series: the two averages of the prices, their
\* difference, its average and the residual; an exception of an ewma call
\* reaches the handlers of __main.
Compute ==
    /\ pc = "loaded"
    /\ \E p \in {PlotDataParams(short_win, long_win)} :
       \E lt \in {Ewma(Prices(data), p.long_win, pandas_validates)},
          st \in {Ewma(Prices(data), p.short_win, pandas_validates)} :
       \E diff \in {IF lt.err = "none" /\ st.err = "none"
                    THEN Minus(lt.out, st.out) ELSE <<>>} :
       \E dav \in {Ewma(diff, OscillatorSpan, pandas_validates)} :
       \E err \in {FirstError(lt, st, dav)} :
           IF err # "none"
           THEN Raise(err) /\ UNCHANGED series
           ELSE /\ series' = [long_win |-> p.long_win, short_win |-> p.short_win,
                              lt_av |-> lt.out, st_av |-> st.out,
                              diff_ltst |-> diff,
                              diff_ltst_av |-> dav.out,
                              diff_av_diff |-> Minus(diff, dav.out)]
                /\ pc' = "computed"
                /\ UNCHANGED <<stdout, traceback, exit_status>>
    /\ UNCHANGED <<args_long, args_short, args_output_file, input_file,
                   pandas_validates, short_win, long_win, data, figure>>

\* The figure drawn as soon as the data is loaded, series or not.
RenderBeforeCompute ==
    /\ pc \in {"loaded", "computed"}
    /\ figure' = IF args_output_file = "None" THEN "shown" ELSE "saved"
    /\ pc' = "rendered"
    /\ UNCHANGED <<args_long, args_short, args_output_file, input_file,
                   pandas_validates, short_win, long_win, data, series,
                   stdout, traceback, exit_status>>

\* plot_data from the figure on: plt.show() when out_file is None, else
\* plt.savefig(out_file), which raises IOError when the path cannot be
\* written.
Render ==
    /\ pc = "computed"
    /\ \/ /\ args_output_file = "None"
          /\ figure' = "shown"
          /\ pc' = "rendered"
          /\ UNCHANGED <<stdout, traceback, exit_status>>
       \/ /\ args_output_file = "path"
          /\ figure' = "saved"
          /\ pc' = "rendered"
          /\ UNCHANGED <<stdout, traceback, exit_status>>
       \/ /\ args_output_file = "path"
          /\ Raise("IOError")
          /\ UNCHANGED figure
    /\ UNCHANGED <<args_long, args_short, args_output_file, input_file,
                   pandas_validates, short_win, long_win, data, series>>

\* __main returns: the process ends with status 0.
Finish ==
    /\ pc = "rendered"
    /\ pc' = "exited"
    /\ exit_status' = 0
    /\ UNCHANGED <<args_long, args_short, args_output_file, input_file,
                   pandas_validates, short_win, long_win, data, series, figure,
                   stdout, traceback>>

Next == ConvertArgs \/ LoadCsv \/ Compute \/ Render \/ Finish

Spec == Init /\ [][Next]_vars

\* The conversion of the two window strings alone.
InitConvert == InitWith(ConvertTexts, {[kind |-> "missing", rows |-> <<>>]})
NextConvert == ConvertArgs
SpecConvert == InitConvert /\ [][NextConvert]_vars

\* ================================================================ claims
\* plot_data has computed its series in this run.
Computed == pc \in {"computed", "rendered"} \/ (pc = "exited" /\ exit_status = 0)

\* process_csv_file has returned in this run.
Loaded == pc \in {"loaded", "computed", "rendered"} \/ (pc = "exited" /\ exit_status = 0)

\* Both window strings convert to a number of days.
WindowsConverted ==
    ConvertInput(args_short).err = "none" /\ ConvertInput(args_long).err = "none"

\* The data rows of the input file (the rows after the header row).
FileRows == SubSeq(input_file.rows, 2, Len(input_file.rows))

\* The (date, close) pair a well-formed row stands for.
RowPair(r) == <<Strptime(r[DateColumn]).val, Float(r[CloseColumn]).val>>

RECURSIVE RPow(_, _)
RPow(f, k) == IF k = 0 THEN RInt(1) ELSE RMul(f, RPow(f, k - 1))

RECURSIVE WeightTotal(_, _, _)
\* f^(i-j) + ... + f^0, the weights of x[j..i] seen from index i.
WeightTotal(f, i, j) ==
    IF j > i THEN RInt(0) ELSE RAdd(RPow(f, i - j), WeightTotal(f, i, j + 1))

RECURSIVE WeightedTotal(_, _, _, _)
\* f^(i-j) * x[j] + ... + f^0 * x[i].
WeightedTotal(x, f, i, j) ==
    IF j > i THEN RInt(0)
    ELSE RAdd(RMul(RPow(f, i - j), x[j]), WeightedTotal(x, f, i, j + 1))

Alpha(span) == RDiv(RInt(2), RAdd(span, RInt(1)))

\* out is the unadjusted recursive average of x:
\* out[1] = x[1], out[i] = alpha * x[i] + (1 - alpha) * out[i-1].
IsUnadjusted(out, x, span) ==
    /\ Len(out) = Len(x)
    /\ Len(x) >= 1 => out[1] = x[1]
    /\ \A i \in 2..Len(x) :
         out[i] = RAdd(RMul(Alpha(span), x[i]),
                       RMul(RSub(RInt(1), Alpha(span)), out[i - 1]))

\* out is the adjusted average of x: out[i] is the mean of x[1..i] under
\* the weights (1 - alpha)^(i-j), stated without the division.
IsAdjusted(out, x, span) ==
    /\ Len(out) = Len(x)
    /\ \A i \in 1..Len(x) :
         RMul(out[i], WeightTotal(RSub(RInt(1), Alpha(span)), i, 1))
           = WeightedTotal(x, RSub(RInt(1), Alpha(span)), i, 1)

\* C1 (as claimed): in every run that reaches the computation (here with
\* at least two prices), the decay span of lt_av is the window given by -l
\* and the decay span of st_av is the window given by -s.
C1_SpansFollowOptions ==
    (Computed /\ Len(data) >= 2) =>
        /\ series.long_win = ConvertInput(args_long).val
        /\ series.short_win = ConvertInput(args_short).val

\* C2 (as claimed): when a window string is no number with an optional w or
\* d, the run ends with one line "ValueError: ..." printed by the handler
\* of __main, no traceback, and status 1.
C2_InvalidWindowCaught ==
    (/\ pc = "exited"
     /\ \/ ConvertInput(args_short).err = "ValueError"
        \/ ConvertInput(args_long).err = "ValueError")
    => (stdout = <<"ValueError">> /\ traceback = "none" /\ exit_status = 1)

\* The file cannot be opened or read.
LoadFailsIO == input_file.kind # "ok"

\* The first data row that does not convert has a malformed date, or a
\* well-formed date and a close that is no number.
LoadFailsValue ==
    /\ input_file.kind = "ok"
    /\ \E i \in 1..Len(FileRows) :
         /\ \A j \in 1..(i - 1) :
              /\ Len(FileRows[j]) >= CloseColumn
              /\ Strptime(FileRows[j][DateColumn]).ok
              /\ Float(FileRows[j][CloseColumn]).ok
         /\ Len(FileRows[i]) >= DateColumn
         /\ \/ ~Strptime(FileRows[i][DateColumn]).ok
            \/ /\ Len(FileRows[i]) >= CloseColumn
               /\ ~Float(FileRows[i][CloseColumn]).ok

\* C3: with valid window strings, a run whose input file cannot be opened
\* or read, or holds a malformed date or a non-numeric close, never gets
\* past loading: it loads nothing, draws nothing, and ends with exactly one
\* printed line carrying the prefix of the error kind, no traceback, and
\* status 1.
C3_LoadFailureReported ==
    (WindowsConverted /\ (LoadFailsIO \/ LoadFailsValue)) =>
        /\ data = <<>> /\ figure = "none" /\ traceback = "none"
        /\ \/ pc \in {"start", "converted"} /\ stdout = <<>>
           \/ /\ pc = "exited"
              /\ exit_status = 1
              /\ stdout = <<IF LoadFailsIO THEN "IOError" ELSE "ValueError">>

\* C3 witness: a run over a file with an ISO date has ended.
C3_Witness ==
    /\ pc = "exited" /\ stdout = <<"ValueError">>
    /\ input_file.kind = "ok" /\ Len(FileRows) >= 1
    /\ FileRows[1][DateColumn] = DateIso

\* C4 (as claimed): each of the three averages is the unadjusted recursive
\* average of its input with alpha = 2 / (span + 1).
C4_Unadjusted ==
    Computed =>
        /\ IsUnadjusted(series.lt_av, Prices(data), series.long_win)
        /\ IsUnadjusted(series.st_av, Prices(data), series.short_win)
        /\ IsUnadjusted(series.diff_ltst_av, series.diff_ltst, OscillatorSpan)

\* C4 (amended): each of the three averages is the adjusted average of its
\* input with alpha = 2 / (span + 1): element i is the mean of elements
\* 0..i under the weights (1 - alpha)^(i-j), so element 0 is input element
\* 0; the same convention in all three.
C4_Adjusted ==
    Computed =>
        /\ IsAdjusted(series.lt_av, Prices(data), series.long_win)
        /\ IsAdjusted(series.st_av, Prices(data), series.short_win)
        /\ IsAdjusted(series.diff_ltst_av, series.diff_ltst, OscillatorSpan)

\* C4 witness: averages over two different prices, different from both
\* the prices and each other.
C4_Witness ==
    /\ Computed /\ Len(data) = 2
    /\ series.lt_av[2] # data[2][2]
    /\ series.st_av[2] # data[2][2]
    /\ series.diff_ltst[2] # RInt(0)

\* C5 (as claimed): a window that is not strictly positive makes the run
\* (here over a file of at least two data rows) fail before it computes
\* or draws anything.
C5_NonPositiveWindowFails ==
    (/\ WindowsConverted
     /\ Len(input_file.rows) >= 3
     /\ \/ ~RLess(RInt(0), ConvertInput(args_long).val)
        \/ ~RLess(RInt(0), ConvertInput(args_short).val))
    => (~Computed /\ figure = "none")

\* C6: for a non-empty price sequence the first element of lt_av and of
\* st_av is the first price, and one price gives one-element averages.
C6_FirstElement ==
    (Computed /\ Len(data) >= 1) =>
        /\ series.lt_av[1] = data[1][2]
        /\ series.st_av[1] = data[1][2]
        /\ Len(data) = 1 => (Len(series.lt_av) = 1 /\ Len(series.st_av) = 1)

\* C6 witness: one price, averaged with two different windows.
C6_Witness ==
    /\ Computed /\ Len(data) = 1
    /\ series.long_win # series.short_win
    /\ series.lt_av = <<data[1][2]>>

\* C7: the conversion returns days: "4w" gives 28, "2w" gives 14, "10d"
\* gives 10 and "3" gives 21, for -s and for -l alike.
C7_WindowDays ==
    pc = "converted" =>
        /\ args_long = <<"4", "w">> => long_win = RInt(28)
        /\ args_long = <<"2", "w">> => long_win = RInt(14)
        /\ args_long = <<"1", "0", "d">> => long_win = RInt(10)
        /\ args_long = <<"3">> => long_win = RInt(21)
        /\ args_long = <<"1", ".", "5", "w">> => long_win = Rat(21, 2)
        /\ args_short = <<"4", "w">> => short_win = RInt(28)
        /\ args_short = <<"2", "w">> => short_win = RInt(14)
        /\ args_short = <<"1", "0", "d">> => short_win = RInt(10)
        /\ args_short = <<"3">> => short_win = RInt(21)

\* C7 witness: "3" and "10d" have been converted.
C7_Witness ==
    /\ pc = "converted"
    /\ args_long = <<"3">> /\ long_win = RInt(21)
    /\ args_short = <<"1", "0", "d">> /\ short_win = RInt(10)

\* C8: the loaded sequence is the pairs of the data rows, one per row,
\* rearranged so that dates never decrease and rows of equal date keep
\* their file order.
C8_SortedStablePermutation ==
    Loaded =>
        /\ Len(data) = Len(FileRows)
        /\ \E perm \in [1..Len(data) -> 1..Len(data)] :
             /\ \A i, j \in 1..Len(data) : i # j => perm[i] # perm[j]
             /\ \A i \in 1..Len(data) : data[i] = RowPair(FileRows[perm[i]])
             /\ \A i, j \in 1..Len(data) :
                  i < j => /\ ~DateLess(data[j][1], data[i][1])
                           /\ data[i][1] = data[j][1] => perm[i] < perm[j]

\* C8 witness: two rows of one day with different closes, in file order.
C8_Witness ==
    /\ Loaded /\ Len(data) = 2
    /\ data[1][1] = data[2][1]
    /\ data[1][2] # data[2][2]
    /\ data[1] = RowPair(FileRows[1])

\* C9: the five series have the length of the input, diff is lt_av minus
\* st_av and the residual is diff minus diff_av, index by index.
C9_SeriesAligned ==
    Computed =>
        /\ Len(series.lt_av) = Len(data)
        /\ Len(series.st_av) = Len(data)
        /\ Len(series.diff_ltst) = Len(data)
        /\ Len(series.diff_ltst_av) = Len(data)
        /\ Len(series.diff_av_diff) = Len(data)
        /\ \A i \in 1..Len(data) :
             /\ series.diff_ltst[i] = RSub(series.lt_av[i], series.st_av[i])
             /\ series.diff_av_diff[i]
                  = RSub(series.diff_ltst[i], series.diff_ltst_av[i])

\* C9 witness: two prices whose averages differ and whose residual is
\* not zero.
C9_Witness ==
    /\ Computed /\ Len(data) = 2
    /\ series.lt_av[2] # series.st_av[2]
    /\ series.diff_av_diff[2] # RInt(0)

\* C10: the steps run in the order load, compute, render, one at a time:
\* the figure is drawn only from the state in which the series are
\* computed and no error was reported, an error ends the process with
\* status 1 in the step that raises it, nothing runs after the process has
\* ended, and status 0 is reached only from the rendered state.
C10_StepOrder ==
    [][/\ pc # "exited"
       /\ pc' = "loaded" => pc = "converted"
       /\ pc' = "computed" => (pc = "loaded" /\ data' = data)
       /\ pc' = "rendered" =>
            (pc = "computed" /\ figure' # "none" /\ series' = series /\ data' = data)
       /\ figure' # figure =>
            (pc = "computed" /\ pc' = "rendered" /\ stdout = <<>> /\ traceback = "none")
       /\ (stdout' # stdout \/ traceback' # traceback) =>
            (pc' = "exited" /\ exit_status' = 1 /\ figure' = "none")
       /\ (pc' = "exited" /\ exit_status' = 0) =>
            (pc = "rendered" /\ figure # "none" /\ stdout' = <<>> /\ traceback' = "none")
      ]_vars

\* C10 witness: a run that drew its figure and ended with status 0.
C10_Witness ==
    /\ pc = "exited" /\ exit_status = 0
    /\ figure = "saved" /\ Len(data) = 2

====
